---- MODULE Spec2Model ----
(***************************************************************************)
(* A model of ocron: the time rule evaluator (task.rs), the due-time queue *)
(* (queue.rs), and the startup / dispatch loop / execution units           *)
(* (main.rs, task.rs).                                                     *)
(*                                                                         *)
(* Instants (chrono NaiveDateTime) are whole seconds counted from          *)
(* 2079-01-01 00:00:00 (a Sunday): instant = date * 86400 + time of day.   *)
(* Weekdays are chrono's number_from_monday: Mon = 1 .. Sun = 7.           *)
(***************************************************************************)
EXTENDS Integers, Sequences, FiniteSets, Bags, TLC

VARIABLES
    fnow,      \* evaluator harness: the reference instant handed to find_next_datetime
    frule,     \* evaluator harness: the On rule handed to find_next_datetime
    fres,      \* evaluator harness: the Result returned
    fpc,       \* evaluator harness: "input" before the call, "done" after
    heap,      \* Queue.queue: the BinaryHeap's entries, a bag of QueuedTask
    lock,      \* Queue.queue: the Mutex's owner, or Free
    waiting,   \* Queue.condvar: the threads parked in Condvar::wait
    pc,        \* each thread's position
    arg,       \* each thread's notify_push arguments (time, task)
    ret,       \* each thread's position after the Queue method it is in returns
    peeked,    \* each thread's last result of wait_peek_time
    popped,    \* each thread's last result of try_pop: the entry removed (the
               \* caller gets its task; its time is kept for the properties)
    tasks,     \* Config.tasks: the task descriptors, in order
    clock,     \* Local::now().naive_local()
    seedIdx,   \* main: the position of the start-tasks iteration
    sleep,     \* main: the thread::sleep in progress (start, duration in ms)
    unit,      \* the threads spawned by Task::run: task, due (the time of the
               \* entry dispatched, kept for the properties), next (next_run's
               \* result), failed (whether command.spawn() returned an error,
               \* kept up to the step after it)
    lastDue,   \* history: the time of the entry try_pop gave the dispatch loop last
    everRan,   \* history: whether Task::run was ever called
    seedFailed,\* history: whether next_run failed while starting tasks
    stalePush, \* history: whether an entry was pushed with a time earlier than
               \* that of an entry dispatched before the push
    dropped,   \* history: the tasks whose next_run failed in a spawned thread
    todo,      \* queue harness: notify_push calls left to make
    pushLog,   \* queue harness history: the bag of entries pushed
    popLog,    \* queue harness history: the entries popped, in order
    earlyPop   \* queue harness history: whether a try_pop ran before the pushes ended

evalVars == <<fnow, frule, fres, fpc>>

queueVars == <<heap, lock, waiting>>

threadVars == <<pc, arg, ret, peeked, popped>>

sysVars == <<tasks, clock, seedIdx, sleep, unit>>

sysHistory == <<lastDue, everRan, seedFailed, stalePush, dropped>>

harnessVars == <<todo, pushLog, popLog, earlyPop>>

vars == <<evalVars, queueVars, threadVars, sysVars, sysHistory, harnessVars>>

(***************************************************************************)
(* chrono: dates, times of day, instants                                   *)
(***************************************************************************)
SecondsPerDay == 24 * 60 * 60

\* 2079-01-01 counted in days from 1970-01-01: 109 years, 27 of them leap years
EpochDays == 109 * 365 + 27

\* NaiveTime::from_hms
from_hms(h, m, s) == h * 3600 + m * 60 + s

\* NaiveDateTime::new(date, time)
NaiveDateTime_new(date, time) == date * SecondsPerDay + time

\* NaiveDateTime::date
DateOf(t) == t \div SecondsPerDay

\* NaiveDateTime::time
TimeOf(t) == t % SecondsPerDay

\* Datelike::weekday, as number_from_monday
WeekdayOf(date) == ((date + 6) % 7) + 1

\* The proleptic Gregorian calendar: (year, month, day) of a date.
Civil(date) ==
    LET z   == date + EpochDays + 719468
        era == z \div 146097
        doe == z - era * 146097
        yoe == (doe - doe \div 1460 + doe \div 36524 - doe \div 146096) \div 365
        doy == doe - (365 * yoe + yoe \div 4 - yoe \div 100)
        mp  == (5 * doy + 2) \div 153
        d   == doy - (153 * mp + 2) \div 5 + 1
        m   == IF mp < 10 THEN mp + 3 ELSE mp - 9
    IN  [year |-> yoe + era * 400 + (IF m <= 2 THEN 1 ELSE 0), month |-> m, day |-> d]

\* Datelike::day
DayOf(date) == Civil(date).day

\* Datelike::month
MonthOf(date) == Civil(date).month

\* slice::contains
Contains(seq, x) == \E i \in 1..Len(seq) : seq[i] = x

(***************************************************************************)
(* task.rs: find_next_datetime                                             *)
(***************************************************************************)
\* Variant: the date loop stops one date short.
LOOKAHEAD_short == 366 * 4 * 7 - 1

LOOKAHEAD == 366 * 4 * 7

NoTime == -1

Err == [ok |-> FALSE, value |-> 0]

Ok(v) == [ok |-> TRUE, value |-> v]

\* The three nested loops visit the triples (hour[i], minute[j], second[k]) in
\* the order of the index idx = ((i-1) * Len(minute) + (j-1)) * Len(second) + (k-1).
TripleAt(hour, minute, second, idx) ==
    LET k == idx % Len(second)
        j == (idx \div Len(second)) % Len(minute)
        i == idx \div (Len(second) * Len(minute))
    IN  from_hms(hour[i + 1], minute[j + 1], second[k + 1])

\* Variant: a triple equal to now's time of day is taken too.
RECURSIVE FindTime_inclusive(_, _, _, _, _, _)
FindTime_inclusive(hour, minute, second, nowt, idx, n) ==
    IF n = 0 THEN NoTime
    ELSE IF n = 1
         THEN LET t == TripleAt(hour, minute, second, idx)
              IN  IF t >= nowt THEN t ELSE NoTime
         ELSE LET h == n \div 2
                  first == FindTime_inclusive(hour, minute, second, nowt, idx, h)
              IN  IF first # NoTime THEN first
                  ELSE FindTime_inclusive(hour, minute, second, nowt, idx + h, n - h)

\* The 'outer loop over the n triples from index idx on: the first one whose
\* time of day is later than now's (the break), NoTime when the loops run out.
\* The range is scanned in order, split in halves to keep the evaluation shallow.
RECURSIVE FindTime(_, _, _, _, _, _)
FindTime(hour, minute, second, nowt, idx, n) ==
    IF n = 0 THEN NoTime
    ELSE IF n = 1
         THEN LET t == TripleAt(hour, minute, second, idx)
              IN  IF t > nowt THEN t ELSE NoTime
         ELSE LET h == n \div 2
                  first == FindTime(hour, minute, second, nowt, idx, h)
              IN  IF first # NoTime THEN first
                  ELSE FindTime(hour, minute, second, nowt, idx + h, n - h)

\* The condition of the date loop.
DateMatches(date, weekday, day, month) ==
    /\ (Len(weekday) = 0 \/ Contains(weekday, WeekdayOf(date)))
    /\ (Len(day) = 0 \/ Contains(day, DayOf(date)))
    /\ (Len(month) = 0 \/ Contains(month, MonthOf(date)))

\* The date loop, n iterations starting at date: the first date that matches
\* (the return), Err when the loop runs out. The range is scanned in order,
\* split in halves to keep the evaluation shallow.
RECURSIVE FindDate(_, _, _, _, _, _)
FindDate(date, time, weekday, day, month, n) ==
    IF n = 0 THEN Err
    ELSE IF n = 1
         THEN IF DateMatches(date, weekday, day, month)
              THEN Ok(NaiveDateTime_new(date, time))
              ELSE Err
         ELSE LET h == n \div 2
                  first == FindDate(date, time, weekday, day, month, h)
              IN  IF first.ok THEN first
                  ELSE FindDate(date + h, time, weekday, day, month, n - h)

\* Variant: the date is not advanced when no time of day is left today.
find_next_datetime_same_day(now, second, minute, hour, weekday, day, month) ==
    LET date0 == DateOf(now)
        nowt  == TimeOf(now)
        found == FindTime(hour, minute, second, nowt, 0,
                          Len(hour) * Len(minute) * Len(second))
        time  == IF found = NoTime THEN from_hms(hour[1], minute[1], second[1]) ELSE found
    IN  FindDate(date0, time, weekday, day, month, LOOKAHEAD)

find_next_datetime(now, second, minute, hour, weekday, day, month) ==
    LET date0 == DateOf(now)
        nowt  == TimeOf(now)
        found == FindTime(hour, minute, second, nowt, 0,
                          Len(hour) * Len(minute) * Len(second))
        date  == IF found = NoTime THEN date0 + 1 ELSE date0
        time  == IF found = NoTime THEN from_hms(hour[1], minute[1], second[1]) ELSE found
    IN  FindDate(date, time, weekday, day, month, LOOKAHEAD)

(***************************************************************************)
(* task.rs: Time::next_run                                                 *)
(***************************************************************************)
NoRule == [second |-> <<>>, minute |-> <<>>, hour |-> <<>>,
           weekday |-> <<>>, day |-> <<>>, month |-> <<>>]

Every(d, startup) ==
    [kind |-> "Every", duration |-> d, rule |-> NoRule, on_startup |-> startup]

After(d, startup) ==
    [kind |-> "After", duration |-> d, rule |-> NoRule, on_startup |-> startup]

On(rule, startup) ==
    [kind |-> "On", duration |-> 0, rule |-> rule, on_startup |-> startup]

\* next_run with the clock value it reads
\* Variant: Every and After subtract the duration from the clock.
next_run_minus(task, now) ==
    IF task.kind \in {"After", "Every"}
    THEN Ok(now - task.duration)
    ELSE find_next_datetime(now, task.rule.second, task.rule.minute, task.rule.hour,
                            task.rule.weekday, task.rule.day, task.rule.month)

next_run(task, now) ==
    IF task.kind \in {"After", "Every"}
    THEN Ok(now + task.duration)
    ELSE find_next_datetime(now, task.rule.second, task.rule.minute, task.rule.hour,
                            task.rule.weekday, task.rule.day, task.rule.month)

(***************************************************************************)
(* queue.rs: QueuedTask and its order                                      *)
(***************************************************************************)
QueuedTask(time, task) == [time |-> time, task |-> task]

NoEntry == QueuedTask(-1, 0)

NaiveDateTime_cmp(a, b) ==
    IF a < b THEN "Less" ELSE IF a = b THEN "Equal" ELSE "Greater"

Ordering_reverse(o) ==
    IF o = "Less" THEN "Greater" ELSE IF o = "Greater" THEN "Less" ELSE "Equal"

\* Variant: the order of the times, not reversed.
QueuedTask_cmp_unreversed(a, b) == NaiveDateTime_cmp(a.time, b.time)

\* impl Ord for QueuedTask
QueuedTask_cmp(a, b) == Ordering_reverse(NaiveDateTime_cmp(a.time, b.time))

\* BinaryHeap: the greatest entries of the heap in the order of QueuedTask_cmp.
\* peek and pop take one of them; which one, among equal entries, is not fixed.
HeapTop(h) ==
    {e \in BagToSet(h) : \A f \in BagToSet(h) : QueuedTask_cmp(e, f) # "Less"}

\* Variant: a collection that keeps one entry of those that compare equal.
HeapPush_dedup(h, e) ==
    IF \E f \in BagToSet(h) : f.time = e.time THEN h ELSE h (+) SetToBag({e})

HeapPush(h, e) == h (+) SetToBag({e})

\* Variant: pop returns the entry and leaves it in the heap.
HeapRemove_keep(h, e) == h

HeapRemove(h, e) == h (-) SetToBag({e})

HeapIsEmpty(h) == BagToSet(h) = {}

(***************************************************************************)
(* Threads: main is thread 0, the threads spawned by Task::run (and the    *)
(* producers of the queue harness) are 1 .. MaxUnits.                      *)
(***************************************************************************)
MaxUnits == 2

Main == 0

Units == 1..MaxUnits

Threads == {Main} \cup Units

Free == -1

(***************************************************************************)
(* queue.rs: Queue::notify_push, Queue::wait_peek_time, Queue::try_pop.    *)
(* These state the steps' effect on the queue and on the calling thread;   *)
(* the specifications add what else stays unchanged.                       *)
(***************************************************************************)
\* A call of notify_push(time, task) that continues at `after`.
CallPush(self, time, task, after) ==
    /\ pc' = [pc EXCEPT ![self] = "push"]
    /\ arg' = [arg EXCEPT ![self] = QueuedTask(time, task)]
    /\ ret' = [ret EXCEPT ![self] = after]

\* A call of wait_peek_time or try_pop (entry is "peek_lock" or "pop").
CallQueue(self, entry, after) ==
    /\ pc' = [pc EXCEPT ![self] = entry]
    /\ ret' = [ret EXCEPT ![self] = after]

\* notify_push, line 48: lock, push, unlock (the guard is a temporary).
Push(self) ==
    /\ pc[self] = "push"
    /\ lock = Free
    /\ heap' = HeapPush(heap, arg[self])
    /\ pc' = [pc EXCEPT ![self] = "notify"]
    /\ UNCHANGED <<lock, waiting, arg, ret, peeked, popped>>

\* Variant: no notification.
Notified_none(w) == {}

\* The threads condvar.notify_all wakes.
Notified(w) == w

\* notify_push, line 49: notify_all, and the return.
Notify(self) ==
    /\ pc[self] = "notify"
    /\ waiting' = waiting \ Notified(waiting)
    /\ pc' = [t \in Threads |->
                IF t = self THEN ret[self]
                ELSE IF t \in Notified(waiting) THEN "peek_relock"
                ELSE pc[t]]
    /\ arg' = [arg EXCEPT ![self] = NoEntry]
    /\ ret' = [ret EXCEPT ![self] = ""]
    /\ UNCHANGED <<heap, lock, peeked, popped>>

\* wait_peek_time, line 53: lock.
PeekLock(self) ==
    /\ pc[self] = "peek_lock"
    /\ lock = Free
    /\ lock' = self
    /\ pc' = [pc EXCEPT ![self] = "peek_check"]
    /\ UNCHANGED <<heap, waiting, arg, ret, peeked, popped>>

\* wait_peek_time, line 54: whether the loop is entered.
MustWait(h) == HeapIsEmpty(h)

\* wait_peek_time, lines 54-55: the queue is empty; Condvar::wait unlocks and
\* parks in one step.
PeekWait(self) ==
    /\ pc[self] = "peek_check"
    /\ MustWait(heap)
    /\ lock' = Free
    /\ waiting' = waiting \cup {self}
    /\ pc' = [pc EXCEPT ![self] = "peek_parked"]
    /\ UNCHANGED <<heap, arg, ret, peeked, popped>>

\* Condvar::wait may also return with no notification.
SpuriousWake(self) ==
    /\ pc[self] = "peek_parked"
    /\ waiting' = waiting \ {self}
    /\ pc' = [pc EXCEPT ![self] = "peek_relock"]
    /\ UNCHANGED <<heap, lock, arg, ret, peeked, popped>>

\* Condvar::wait, on its way out: lock again, back to the loop's condition.
PeekRelock(self) ==
    /\ pc[self] = "peek_relock"
    /\ lock = Free
    /\ lock' = self
    /\ pc' = [pc EXCEPT ![self] = "peek_check"]
    /\ UNCHANGED <<heap, waiting, arg, ret, peeked, popped>>

\* Variant: the entry peeked is removed.
PeekReturn_pop(self) ==
    /\ pc[self] = "peek_check"
    /\ ~MustWait(heap)
    /\ \E e \in HeapTop(heap) :
           /\ peeked' = [peeked EXCEPT ![self] = e.time]
           /\ heap' = HeapRemove(heap, e)
    /\ lock' = Free
    /\ pc' = [pc EXCEPT ![self] = ret[self]]
    /\ ret' = [ret EXCEPT ![self] = ""]
    /\ UNCHANGED <<waiting, arg, popped>>

\* wait_peek_time, lines 54, 57: the queue is not empty; peek, unlock, return.
PeekReturn(self) ==
    /\ pc[self] = "peek_check"
    /\ ~MustWait(heap)
    /\ \E e \in HeapTop(heap) : peeked' = [peeked EXCEPT ![self] = e.time]
    /\ lock' = Free
    /\ pc' = [pc EXCEPT ![self] = ret[self]]
    /\ ret' = [ret EXCEPT ![self] = ""]
    /\ UNCHANGED <<heap, waiting, arg, popped>>

\* Variant: the entry returned stays in the queue.
TryPop_peek(self) ==
    /\ pc[self] = "pop"
    /\ lock = Free
    /\ IF HeapIsEmpty(heap)
       THEN popped' = [popped EXCEPT ![self] = NoEntry]
       ELSE \E e \in HeapTop(heap) : popped' = [popped EXCEPT ![self] = e]
    /\ heap' = heap
    /\ pc' = [pc EXCEPT ![self] = ret[self]]
    /\ ret' = [ret EXCEPT ![self] = ""]
    /\ UNCHANGED <<lock, waiting, arg, peeked>>

\* try_pop, lines 61-64: lock, pop, unlock, return.
TryPop(self) ==
    /\ pc[self] = "pop"
    /\ lock = Free
    /\ IF HeapIsEmpty(heap)
       THEN /\ popped' = [popped EXCEPT ![self] = NoEntry]
            /\ heap' = heap
       ELSE \E e \in HeapTop(heap) :
                /\ popped' = [popped EXCEPT ![self] = e]
                /\ heap' = HeapRemove(heap, e)
    /\ pc' = [pc EXCEPT ![self] = ret[self]]
    /\ ret' = [ret EXCEPT ![self] = ""]
    /\ UNCHANGED <<lock, waiting, arg, peeked>>

\* The states of the queue and of the threads before anything runs.
InitQueue ==
    /\ heap = EmptyBag
    /\ lock = Free
    /\ waiting = {}
    /\ arg = [t \in Threads |-> NoEntry]
    /\ ret = [t \in Threads |-> ""]
    /\ peeked = [t \in Threads |-> -1]
    /\ popped = [t \in Threads |-> NoEntry]

(***************************************************************************)
(* The evaluator on its own: find_next_datetime applied to bounded inputs. *)
(***************************************************************************)
\* Reference dates: 2079-01-01 (a Sunday) and the MaxDate days after it,
\* 2079-01-31, and 2084-02-07: the 29th of February next falls on a Monday
\* on 2112-02-29, which is 366 * 4 * 7 days after 2084-02-07.
MaxDate == 2

RefDates == (0..MaxDate) \cup {30, 1863}

RefTimes == {from_hms(0, 0, 0), from_hms(2, 59, 59), from_hms(3, 0, 0),
             from_hms(5, 0, 0), from_hms(23, 59, 59)}

Rule(second, minute, hour, weekday, day, month) ==
    [second |-> second, minute |-> minute, hour |-> hour,
     weekday |-> weekday, day |-> day, month |-> month]

OnRules ==
    [second : {<<0>>, <<0, 30>>}, minute : {<<0>>, <<0, 30>>}, hour : {<<3>>, <<3, 9>>},
     weekday : {<<>>, <<1>>, <<6, 7>>}, day : {<<>>, <<1>>, <<31>>}, month : {<<>>, <<1>>}]
    \cup {Rule(<<0>>, <<0>>, <<3>>, <<>>, <<31>>, <<2>>),
          Rule(<<0>>, <<0>>, <<3, 9>>, <<>>, <<29>>, <<2>>),
          Rule(<<0>>, <<0>>, <<3>>, <<1>>, <<29>>, <<2>>)}

\* The other variables, which the evaluator does not touch.
Idle ==
    /\ InitQueue
    /\ pc = [t \in Threads |-> "idle"]
    /\ tasks = <<>>
    /\ clock = 0
    /\ seedIdx = 1
    /\ sleep = [start |-> 0, ms |-> 0]
    /\ unit = [u \in Units |-> [task |-> 0, due |-> 0, next |-> Err, failed |-> FALSE]]
    /\ lastDue = -1
    /\ everRan = FALSE
    /\ seedFailed = FALSE
    /\ stalePush = FALSE
    /\ dropped = {}
    /\ todo = 0
    /\ pushLog = EmptyBag
    /\ popLog = <<>>
    /\ earlyPop = FALSE

InitOn ==
    /\ fnow \in {NaiveDateTime_new(d, t) : d \in RefDates, t \in RefTimes}
    /\ frule \in OnRules
    /\ fres = Err
    /\ fpc = "input"
    /\ Idle

Evaluate ==
    /\ fpc = "input"
    /\ fres' = find_next_datetime(fnow, frule.second, frule.minute, frule.hour,
                                  frule.weekday, frule.day, frule.month)
    /\ fpc' = "done"
    /\ UNCHANGED <<fnow, frule>>
    /\ UNCHANGED <<queueVars, threadVars, sysVars, sysHistory, harnessVars>>

NextOn == Evaluate

SpecOn == InitOn /\ [][NextOn]_vars

(***************************************************************************)
(* The queue on its own: threads 1 .. MaxUnits call notify_push with any   *)
(* arguments, MaxPush times in all, while thread 0 calls wait_peek_time    *)
(* and try_pop in any order.                                               *)
(***************************************************************************)
MaxPush == 2

PushTimes == {0, 1, 2}

PushTasks == {1, 2}

PushesDone == todo = 0 /\ \A u \in Units : pc[u] = "idle"

InitQ ==
    /\ InitQueue
    /\ pc = [t \in Threads |-> "idle"]
    /\ todo = MaxPush
    /\ pushLog = EmptyBag
    /\ popLog = <<>>
    /\ earlyPop = FALSE
    /\ fnow = 0 /\ frule = NoRule /\ fres = Err /\ fpc = "done"
    /\ tasks = <<>> /\ clock = 0 /\ seedIdx = 1
    /\ sleep = [start |-> 0, ms |-> 0]
    /\ unit = [u \in Units |-> [task |-> 0, due |-> 0, next |-> Err, failed |-> FALSE]]
    /\ lastDue = -1 /\ everRan = FALSE /\ seedFailed = FALSE /\ stalePush = FALSE
    /\ dropped = {}

QRest == UNCHANGED <<evalVars, sysVars, sysHistory>>

QCallPush(self) ==
    /\ pc[self] = "idle"
    /\ todo > 0
    /\ \E time \in PushTimes, task \in PushTasks : CallPush(self, time, task, "idle")
    /\ todo' = todo - 1
    /\ UNCHANGED <<queueVars, peeked, popped, pushLog, popLog, earlyPop>>
    /\ QRest

QPush(self) ==
    /\ Push(self)
    /\ pushLog' = pushLog (+) SetToBag({arg[self]})
    /\ UNCHANGED <<todo, popLog, earlyPop>>
    /\ QRest

QNotify(self) ==
    /\ Notify(self)
    /\ UNCHANGED harnessVars
    /\ QRest

QCallPeek ==
    /\ pc[Main] = "idle"
    /\ CallQueue(Main, "peek_lock", "idle")
    /\ UNCHANGED <<queueVars, arg, peeked, popped, harnessVars>>
    /\ QRest

QCallPop ==
    /\ pc[Main] = "idle"
    /\ CallQueue(Main, "pop", "idle")
    /\ UNCHANGED <<queueVars, arg, peeked, popped, harnessVars>>
    /\ QRest

QPeek ==
    /\ \/ PeekLock(Main)
       \/ PeekWait(Main)
       \/ PeekRelock(Main)
       \/ PeekReturn(Main)
    /\ UNCHANGED harnessVars
    /\ QRest

QSpuriousWake ==
    /\ SpuriousWake(Main)
    /\ UNCHANGED harnessVars
    /\ QRest

QTryPop ==
    /\ TryPop(Main)
    /\ popLog' = IF popped'[Main] = NoEntry THEN popLog ELSE Append(popLog, popped'[Main])
    /\ earlyPop' = (earlyPop \/ ~PushesDone)
    /\ UNCHANGED <<todo, pushLog>>
    /\ QRest

QProducer == \E self \in Units : QCallPush(self) \/ QPush(self) \/ QNotify(self)

QConsumer == QCallPeek \/ QCallPop \/ QPeek \/ QTryPop

NextQ == QProducer \/ QConsumer \/ QSpuriousWake

SpecQueue == InitQ /\ [][NextQ]_vars

\* Threads that can run do run: the scheduler starves none of them. A wait
\* that returns with no notification is possible, never promised.
FairSpecQueue == SpecQueue /\ WF_vars(QProducer) /\ WF_vars(QConsumer)

(***************************************************************************)
(* main.rs, task.rs: the program. Thread 0 starts the tasks and runs the   *)
(* dispatch loop; Task::run spawns a thread per entry dispatched.          *)
(***************************************************************************)
\* The clock runs from StartClock up to MaxClock seconds past it.
MaxClock == 4

StartClock == NaiveDateTime_new(0, from_hms(0, 0, 0))

\* An On rule that matches at 00:00:01 and 00:00:03 of every day.
RuleOddSeconds == Rule(<<1, 3>>, <<0>>, <<0>>, <<>>, <<>>, <<>>)

\* An On rule that no date matches: a Monday that is the 31st of February.
RuleNever == Rule(<<0>>, <<0>>, <<0>>, <<1>>, <<31>>, <<2>>)

Configs ==
    {<<Every(1, FALSE), After(1, TRUE)>>,
     <<On(RuleOddSeconds, FALSE)>>,
     <<After(1, FALSE)>>,
     <<Every(1, TRUE), On(RuleNever, FALSE), After(1, TRUE)>>,
     <<On(RuleNever, TRUE), Every(3, FALSE)>>,
     <<Every(200, TRUE)>>,
     <<After(4, FALSE)>>}

NoUnit == [task |-> 0, due |-> 0, next |-> Err, failed |-> FALSE]

NoSleep == [start |-> 0, ms |-> 0]

\* The state main starts the tasks in, the configuration being one of configs.
InitWith(configs) ==
    /\ InitQueue
    /\ pc = [t \in Threads |-> IF t = Main THEN "seed" ELSE "idle"]
    /\ tasks \in configs
    /\ clock = StartClock
    /\ seedIdx = 1
    /\ sleep = NoSleep
    /\ unit = [u \in Units |-> NoUnit]
    /\ lastDue = -1 /\ everRan = FALSE /\ seedFailed = FALSE /\ stalePush = FALSE
    /\ dropped = {}
    /\ todo = 0 /\ pushLog = EmptyBag /\ popLog = <<>> /\ earlyPop = FALSE
    /\ fnow = 0 /\ frule = NoRule /\ fres = Err /\ fpc = "done"

InitSys == InitWith(Configs)

SRest == UNCHANGED <<evalVars, harnessVars, tasks>>

\* Local time passes.  The clock only moves forward here: backward jumps of
\* the local clock (DST, manual changes) are outside this model.
Tick ==
    /\ clock < StartClock + MaxClock
    /\ clock' = clock + 1
    /\ UNCHANGED <<queueVars, threadVars, seedIdx, sleep, unit, sysHistory>>
    /\ SRest

\* Variant: the error is logged and the next task is started.
SeedErrorLogged == FALSE

\* What the start-tasks closure does with a failed next_run: the ? operator
\* leaves try_for_each, and main returns the error.
SeedErrorAborts == TRUE

\* main, lines 56-69: one turn of try_for_each, up to its notify_push; after
\* the last task, the first wait_peek_time of the dispatch loop.
Seed ==
    /\ pc[Main] = "seed"
    /\ IF seedIdx > Len(tasks)
       THEN /\ CallQueue(Main, "peek_lock", "loop_cmp")
            /\ UNCHANGED <<arg, seedIdx, seedFailed>>
       ELSE LET task == tasks[seedIdx]
                next == IF task.on_startup THEN Ok(clock) ELSE next_run(task, clock)
            IN  IF next.ok
                THEN /\ CallPush(Main, next.value, seedIdx, "seed")
                     /\ seedIdx' = seedIdx + 1
                     /\ UNCHANGED seedFailed
                ELSE /\ seedFailed' = TRUE
                     /\ IF SeedErrorAborts
                        THEN /\ pc' = [pc EXCEPT ![Main] = "exit"]
                             /\ UNCHANGED seedIdx
                        ELSE /\ pc' = [pc EXCEPT ![Main] = "seed"]
                             /\ seedIdx' = seedIdx + 1
                     /\ UNCHANGED <<arg, ret>>
    /\ UNCHANGED <<queueVars, peeked, popped, clock, sleep, unit, lastDue, everRan,
                   stalePush, dropped>>
    /\ SRest

\* main, line 73: the condition of the while loop.
\* Variant: an entry counts as due one second ahead of its time.
IsDue_ahead(time, now) == time < now + 1

IsDue(time, now) == time < now

\* main, lines 73-74 and 89: the while loop's condition with the clock it
\* reads; then try_pop, or the second wait_peek_time.
LoopCmp ==
    /\ pc[Main] = "loop_cmp"
    /\ IF IsDue(peeked[Main], clock)
       THEN CallQueue(Main, "pop", "loop_run")
       ELSE CallQueue(Main, "peek_lock", "sleep_calc")
    /\ UNCHANGED <<queueVars, arg, peeked, popped, clock, seedIdx, sleep, unit, sysHistory>>
    /\ SRest

\* Variant: Task::run waits while a thread spawned for the same task has not
\* ended.
LoopRun_exclusive ==
    /\ pc[Main] = "loop_run"
    /\ \A v \in Units : unit[v].task # popped[Main].task
    /\ IF popped[Main] = NoEntry
       THEN /\ pc' = [pc EXCEPT ![Main] = "panic"]
            /\ UNCHANGED <<ret, unit, everRan>>
       ELSE /\ \E u \in Units :
                /\ pc[u] = "idle"
                /\ \A v \in Units : v < u => pc[v] # "idle"
                /\ unit' = [unit EXCEPT ![u] = [task |-> popped[Main].task,
                                                due |-> popped[Main].time,
                                                next |-> Err,
                                                failed |-> FALSE]]
                /\ pc' = [pc EXCEPT ![Main] = "peek_lock", ![u] = "start"]
            /\ ret' = [ret EXCEPT ![Main] = "loop_cmp"]
            /\ everRan' = TRUE
    /\ UNCHANGED <<queueVars, arg, peeked, popped, clock, seedIdx, sleep, lastDue,
                   seedFailed, stalePush, dropped>>
    /\ UNCHANGED <<evalVars, harnessVars, tasks>>

\* Variant: Task::run returns only when the threads it spawned before have
\* ended (the execution is joined).
LoopRun_joined ==
    /\ pc[Main] = "loop_run"
    /\ \A v \in Units : pc[v] = "idle"
    /\ IF popped[Main] = NoEntry
       THEN /\ pc' = [pc EXCEPT ![Main] = "panic"]
            /\ UNCHANGED <<ret, unit, everRan>>
       ELSE /\ unit' = [unit EXCEPT ![1] = [task |-> popped[Main].task,
                                            due |-> popped[Main].time,
                                            next |-> Err,
                                            failed |-> FALSE]]
            /\ pc' = [pc EXCEPT ![Main] = "peek_lock", ![1] = "start"]
            /\ ret' = [ret EXCEPT ![Main] = "loop_cmp"]
            /\ everRan' = TRUE
    /\ UNCHANGED <<queueVars, arg, peeked, popped, clock, seedIdx, sleep, lastDue,
                   seedFailed, stalePush, dropped>>
    /\ UNCHANGED <<evalVars, harnessVars, tasks>>

\* main, lines 75-76 and task.rs lines 12-39: unwrap, Task::run up to
\* thread::spawn, then the loop's next wait_peek_time.
LoopRun ==
    /\ pc[Main] = "loop_run"
    /\ IF popped[Main] = NoEntry
       THEN /\ pc' = [pc EXCEPT ![Main] = "panic"]
            /\ UNCHANGED <<ret, unit, everRan>>
       ELSE /\ \E u \in Units :
                /\ pc[u] = "idle"
                /\ \A v \in Units : v < u => pc[v] # "idle"
                /\ unit' = [unit EXCEPT ![u] = [task |-> popped[Main].task,
                                                due |-> popped[Main].time,
                                                next |-> Err,
                                                failed |-> FALSE]]
                /\ pc' = [pc EXCEPT ![Main] = "peek_lock", ![u] = "start"]
            /\ ret' = [ret EXCEPT ![Main] = "loop_cmp"]
            /\ everRan' = TRUE
    /\ UNCHANGED <<queueVars, arg, peeked, popped, clock, seedIdx, sleep, lastDue,
                   seedFailed, stalePush, dropped>>
    /\ SRest

\* Variant: the lower limit is not applied.
clamp_upper(x, min, max) == IF max < x THEN max ELSE x

\* clamp, lines 80-83
clamp(x, min, max) ==
    LET a == IF x > min THEN x ELSE min
    IN  IF max < a THEN max ELSE a

\* main, lines 88-94: the duration handed to thread::sleep, in milliseconds.
SleepFor(time, now) ==
    clamp((IF time - now < 0 THEN 1000 ELSE (time - now) * 1000) \div 2, 1000, 60000)

\* main, lines 85-95: the clock is read and thread::sleep begins.
SleepCalc ==
    /\ pc[Main] = "sleep_calc"
    /\ sleep' = [start |-> clock, ms |-> SleepFor(peeked[Main], clock)]
    /\ pc' = [pc EXCEPT ![Main] = "sleeping"]
    /\ UNCHANGED <<queueVars, arg, ret, peeked, popped, clock, seedIdx, unit, sysHistory>>
    /\ SRest

\* thread::sleep returns once the duration has passed; then the loop's next
\* wait_peek_time.
SleepEnd ==
    /\ pc[Main] = "sleeping"
    /\ clock * 1000 >= sleep.start * 1000 + sleep.ms
    /\ sleep' = NoSleep
    /\ CallQueue(Main, "peek_lock", "loop_cmp")
    /\ UNCHANGED <<queueVars, arg, peeked, popped, clock, seedIdx, unit, sysHistory>>
    /\ SRest

\* Variant: every kind of task pushes its next run before the spawn.
RearmsBefore_all(task) == task.kind \in {"On", "Every", "After"}

\* Task::run, lines 42 and 56: whether the next run is pushed before the
\* command is spawned (otherwise after the child has exited).
RearmsBefore(task) == task.kind \in {"On", "Every"}

\* Variant: every kind of task pushes a next run after the child has exited.
RearmsAfter_all(task) == task.kind \in {"On", "Every", "After"}

\* Task::run, line 56: whether the next run is pushed after the spawn and wait.
RearmsAfter(task) == task.kind = "After"

\* Variant: an error is replaced by the default value (unwrap_or_default).
log_error_default(result) == IF result.ok THEN result ELSE Ok(0)

\* LogError::log_error: Some(ok) of an Ok, None of an Err (which is printed);
\* the Option is the same record, ok telling Some from None.
log_error(result) == IF result.ok THEN Ok(result.value) ELSE Err

\* Task::run, lines 40-46: the thread starts; On and Every compute the next
\* run from the clock and push it (an error is logged and nothing is pushed).
UnitStart(u) ==
    /\ pc[u] = "start"
    /\ IF RearmsBefore(tasks[unit[u].task])
       THEN \E next \in {next_run(tasks[unit[u].task], clock)} :
                /\ unit' = [unit EXCEPT ![u].next = next]
                /\ dropped' = IF next.ok THEN dropped ELSE dropped \cup {unit[u].task}
                /\ IF log_error(next).ok
                   THEN CallPush(u, log_error(next).value, unit[u].task, "spawn")
                   ELSE /\ pc' = [pc EXCEPT ![u] = "spawn"]
                        /\ UNCHANGED <<arg, ret>>
       ELSE /\ pc' = [pc EXCEPT ![u] = "spawn"]
            /\ UNCHANGED <<arg, ret, unit, dropped>>
    /\ UNCHANGED <<queueVars, peeked, popped, clock, seedIdx, sleep, lastDue, everRan,
                   seedFailed, stalePush>>
    /\ SRest

\* Variant: a failed spawn takes back the entry the thread has pushed.
UnitSpawn_cancel(u) ==
    /\ pc[u] = "spawn"
    /\ \E spawned \in BOOLEAN :
           /\ pc' = [pc EXCEPT ![u] = IF spawned THEN "child" ELSE "post"]
           /\ unit' = [unit EXCEPT ![u].failed = ~spawned]
           /\ heap' = IF spawned \/ ~unit[u].next.ok
                      THEN heap
                      ELSE HeapRemove(heap, QueuedTask(unit[u].next.value, unit[u].task))
    /\ UNCHANGED <<lock, waiting, arg, ret, peeked, popped, clock, seedIdx, sleep,
                   sysHistory>>
    /\ SRest

\* Task::run, line 48: command.spawn() starts the child, or fails (logged).
UnitSpawn(u) ==
    /\ pc[u] = "spawn"
    /\ \E spawned \in BOOLEAN :
           /\ pc' = [pc EXCEPT ![u] = IF spawned THEN "child" ELSE "post"]
           /\ unit' = [unit EXCEPT ![u].failed = ~spawned]
    /\ UNCHANGED <<queueVars, arg, ret, peeked, popped, clock, seedIdx, sleep, sysHistory>>
    /\ SRest

\* Task::run, lines 51-53: child.wait() returns: the child has exited, or the
\* wait failed (logged).
UnitWait(u) ==
    /\ pc[u] = "child"
    /\ pc' = [pc EXCEPT ![u] = "post"]
    /\ UNCHANGED <<queueVars, arg, ret, peeked, popped, clock, seedIdx, sleep, unit,
                   sysHistory>>
    /\ SRest

\* Task::run, lines 56-60: After computes the next run from the clock and
\* pushes it.
UnitPost(u) ==
    /\ pc[u] = "post"
    /\ IF RearmsAfter(tasks[unit[u].task])
       THEN \E next \in {next_run(tasks[unit[u].task], clock)} :
                /\ unit' = [unit EXCEPT ![u].next = next, ![u].failed = FALSE]
                /\ dropped' = IF next.ok THEN dropped ELSE dropped \cup {unit[u].task}
                /\ IF log_error(next).ok
                   THEN CallPush(u, log_error(next).value, unit[u].task, "end")
                   ELSE /\ pc' = [pc EXCEPT ![u] = "end"]
                        /\ UNCHANGED <<arg, ret>>
       ELSE /\ pc' = [pc EXCEPT ![u] = "end"]
            /\ unit' = [unit EXCEPT ![u].failed = FALSE]
            /\ UNCHANGED <<arg, ret, dropped>>
    /\ UNCHANGED <<queueVars, peeked, popped, clock, seedIdx, sleep, lastDue, everRan,
                   seedFailed, stalePush>>
    /\ SRest

\* The closure returns and the thread ends.
\* Variant: the thread calls try_pop on the queue before it ends and drops
\* what it gets, a second consumer next to main.
UnitEnd_try_pop(u) ==
    /\ pc[u] = "end"
    /\ lock = Free
    /\ pc' = [pc EXCEPT ![u] = "idle"]
    /\ unit' = [unit EXCEPT ![u] = NoUnit]
    /\ IF HeapIsEmpty(heap)
       THEN heap' = heap
       ELSE \E e \in HeapTop(heap) : heap' = HeapRemove(heap, e)
    /\ UNCHANGED <<lock, waiting, arg, ret, peeked, popped, clock, seedIdx, sleep, sysHistory>>
    /\ SRest

UnitEnd(u) ==
    /\ pc[u] = "end"
    /\ pc' = [pc EXCEPT ![u] = "idle"]
    /\ unit' = [unit EXCEPT ![u] = NoUnit]
    /\ UNCHANGED <<queueVars, arg, ret, peeked, popped, clock, seedIdx, sleep, sysHistory>>
    /\ SRest

\* The other steps of the Queue methods, taken by main or by a spawned thread.
SQueue(self) ==
    /\ \/ Notify(self)
       \/ PeekLock(self)
       \/ PeekWait(self)
       \/ SpuriousWake(self)
       \/ PeekRelock(self)
       \/ PeekReturn(self)
    /\ UNCHANGED <<clock, seedIdx, sleep, unit, sysHistory>>
    /\ SRest

\* try_pop, taken by main: the entry it removes is the entry dispatched.
SPop(self) ==
    /\ TryPop(self)
    /\ lastDue' = IF popped'[self] = NoEntry THEN lastDue ELSE popped'[self].time
    /\ UNCHANGED <<clock, seedIdx, sleep, unit, everRan, seedFailed, stalePush, dropped>>
    /\ SRest

\* The push of notify_push, taken by main or by a spawned thread.
SPush(self) ==
    /\ Push(self)
    /\ stalePush' = (stalePush \/ arg[self].time < lastDue)
    /\ UNCHANGED <<clock, seedIdx, sleep, unit, lastDue, everRan, seedFailed, dropped>>
    /\ SRest

MainStep ==
    \/ Seed \/ LoopCmp \/ LoopRun \/ SleepCalc \/ SleepEnd
    \/ SPush(Main) \/ SPop(Main) \/ SQueue(Main)

UnitStep(u) ==
    \/ UnitStart(u) \/ UnitSpawn(u) \/ UnitWait(u) \/ UnitPost(u) \/ UnitEnd(u)
    \/ SPush(u) \/ SQueue(u)

Next == Tick \/ MainStep \/ \E u \in Units : UnitStep(u)

Spec == InitSys /\ [][Next]_vars

\* The program with a task that starts at once and a periodic one, under a
\* fair scheduler:
\* main takes its steps (a wait on the condition variable returns when
\* notified; a return with no notification is never promised), and so do the
\* spawned threads, but a child need not exit: the child of thread 1 may run
\* forever. The children of the other threads exit, so that the bounded number
\* of threads of the model never keeps thread::spawn from starting one. The
\* clock is not required to advance.
InitHang == InitWith({<<After(4, TRUE), Every(2, FALSE)>>})

MainProgress == MainStep /\ pc[Main] # "peek_parked"

UnitProgress(u) == UnitStep(u) /\ (u = 1 => pc[u] # "child")

FairSpecHang ==
    /\ InitHang
    /\ [][Next]_vars
    /\ WF_vars(MainProgress)
    /\ \A u \in Units : WF_vars(UnitProgress(u))

(***************************************************************************)
(* Properties                                                              *)
(***************************************************************************)
Range(seq) == {seq[i] : i \in 1..Len(seq)}

\* Timelike::hour, minute, second of an instant
HourOf(t) == TimeOf(t) \div 3600

MinuteOf(t) == (TimeOf(t) % 3600) \div 60

SecondOf(t) == TimeOf(t) % 60

\* An instant all of whose six fields satisfy the rule.
Qualifies(rule, t) ==
    /\ HourOf(t) \in Range(rule.hour)
    /\ MinuteOf(t) \in Range(rule.minute)
    /\ SecondOf(t) \in Range(rule.second)
    /\ (rule.weekday = <<>> \/ WeekdayOf(DateOf(t)) \in Range(rule.weekday))
    /\ (rule.day = <<>> \/ DayOf(DateOf(t)) \in Range(rule.day))
    /\ (rule.month = <<>> \/ MonthOf(DateOf(t)) \in Range(rule.month))

\* The instants of the rule's times of day on the dates from..to.
RuleInstants(rule, from, to) ==
    {NaiveDateTime_new(d, from_hms(h, m, s)) :
        d \in from..to, h \in Range(rule.hour), m \in Range(rule.minute),
        s \in Range(rule.second)}

\* C1: an instant find_next_datetime returns is the next qualifying one: it
\* satisfies the six field-sets and no instant between now and it does.
OnResultIsNext ==
    (fpc = "done" /\ fres.ok) =>
        /\ Qualifies(frule, fres.value)
        /\ \A q \in RuleInstants(frule, DateOf(fnow), DateOf(fres.value)) :
               (fnow < q /\ q < fres.value) => ~Qualifies(frule, q)

\* The times of day of the rule's (hour, minute, second) triples.
TripleTimes(rule) ==
    {from_hms(h, m, s) :
        h \in Range(rule.hour), m \in Range(rule.minute), s \in Range(rule.second)}

\* The date the date search starts at: today when a triple is later than
\* now's time of day, tomorrow otherwise.
CandidateDate(rule, now) ==
    IF \E t \in TripleTimes(rule) : t > TimeOf(now) THEN DateOf(now) ELSE DateOf(now) + 1

\* A date that satisfies the weekday, day and month constraints together.
DateQualifies(rule, date) ==
    /\ (rule.weekday = <<>> \/ WeekdayOf(date) \in Range(rule.weekday))
    /\ (rule.day = <<>> \/ DayOf(date) \in Range(rule.day))
    /\ (rule.month = <<>> \/ MonthOf(date) \in Range(rule.month))

\* The number of consecutive dates the date search looks at.
Horizon == 366 * 4 * 7

\* C11: find_next_datetime fails exactly when none of the 366 * 4 * 7 dates
\* from the candidate date on satisfies the weekday, day and month constraints
\* together; a result it returns was found within that many date checks; and
\* the rule day = {31}, month = {2} fails whatever now is.
LookaheadFailure ==
    fpc = "done" =>
        LET first == CandidateDate(frule, fnow)
        IN  /\ ~fres.ok <=> \A d \in first..(first + Horizon - 1) : ~DateQualifies(frule, d)
            /\ fres.ok => DateOf(fres.value) - first + 1 \in 1..Horizon
            /\ (frule.day = <<31>> /\ frule.month = <<2>>) => ~fres.ok

\* The search has failed for a rule that the first date past the horizon
\* satisfies.
LookaheadFailureWitness ==
    /\ fpc = "done"
    /\ ~fres.ok
    /\ DateQualifies(frule, CandidateDate(frule, fnow) + Horizon)

\* The least time of the entries of a non-empty heap.
MinTime(h) ==
    CHOOSE t \in {e.time : e \in BagToSet(h)} : \A e \in BagToSet(h) : t <= e.time

\* The bag of a sequence's elements.
BagOfSeq(seq) ==
    [e \in Range(seq) |-> Cardinality({i \in 1..Len(seq) : seq[i] = e})]

\* C2: when the try_pop calls all follow the notify_push calls, the times of
\* the entries popped never decrease, and the entries popped, with those
\* still queued, are the entries pushed; so a drained queue gave back
\* exactly what was pushed.
QueueOrdering ==
    ~earlyPop =>
        /\ \A i \in 1..(Len(popLog) - 1) : popLog[i].time <= popLog[i + 1].time
        /\ BagOfSeq(popLog) (+) heap = pushLog
        /\ (PushesDone /\ HeapIsEmpty(heap)) => BagOfSeq(popLog) = pushLog

QueueOrderingWitness ==
    /\ ~earlyPop
    /\ PushesDone
    /\ HeapIsEmpty(heap)
    /\ Len(popLog) >= 2
    /\ popLog[1].time < popLog[2].time
    /\ pc[Main] = "idle"

PeekLabels == {"peek_lock", "peek_check", "peek_parked", "peek_relock"}

\* C3: a thread inside wait_peek_time, wherever it is, while the queue holds
\* an entry, gets to return, and returns the least time in the queue.
NoLostWakeup ==
    (pc[Main] \in PeekLabels /\ ~HeapIsEmpty(heap))
        ~> (pc[Main] = "idle" /\ ~HeapIsEmpty(heap) /\ peeked[Main] = MinTime(heap))

\* The consumer is parked and an entry has been pushed since.
NoLostWakeupWitness ==
    /\ pc[Main] = "peek_parked"
    /\ Main \in waiting
    /\ ~HeapIsEmpty(heap)

\* C4: wait_peek_time returns only from a non-empty queue, returns the least
\* time in it, and none of its steps changes the queue's contents.
PeekFrame ==
    [][(pc[Main] \in PeekLabels /\ pc'[Main] # pc[Main]) =>
           /\ heap' = heap
           /\ pc'[Main] \notin PeekLabels =>
                  /\ ~HeapIsEmpty(heap)
                  /\ peeked'[Main] = MinTime(heap)]_vars

\* wait_peek_time has returned the least of two different times.
PeekFrameWitness ==
    /\ pc[Main] = "idle"
    /\ popLog = <<>>
    /\ BagCardinality(heap) >= 2
    /\ peeked[Main] = MinTime(heap)
    /\ \E e \in BagToSet(heap) : e.time > peeked[Main]

\* C5: try_pop returns in one step whatever the queue holds, parking nowhere;
\* from a non-empty queue it removes one entry, of the least time, and
\* returns it; from an empty queue it returns none and the queue stays empty.
TryPopContract ==
    /\ [](pc[Main] = "pop" /\ lock = Free => ENABLED TryPop(Main))
    /\ [][pc[Main] = "pop" /\ pc'[Main] # "pop" =>
             /\ pc'[Main] = ret[Main]
             /\ waiting' = waiting
             /\ IF HeapIsEmpty(heap)
                THEN popped'[Main] = NoEntry /\ HeapIsEmpty(heap')
                ELSE /\ popped'[Main] \in BagToSet(heap)
                     /\ popped'[Main].time = MinTime(heap)
                     /\ heap' = heap (-) SetToBag({popped'[Main]})
                     /\ BagCardinality(heap') = BagCardinality(heap) - 1]_vars

\* try_pop took an entry of the least time and left a later one.
TryPopContractWitness ==
    /\ pc[Main] = "idle"
    /\ Len(popLog) = 1
    /\ popped[Main] = popLog[1]
    /\ BagOfSeq(popLog) (+) heap = pushLog
    /\ \E e \in BagToSet(heap) : e.time > popped[Main].time

\* The thread of an execution that has begun and whose child has not exited.
InFlight(u) ==
    \/ pc[u] \in {"start", "spawn", "child"}
    \/ pc[u] \in {"push", "notify"} /\ ret[u] = "spawn"

\* C6: the next run an Every task pushes is the time of the entry just
\* dispatched plus the duration.
EveryNoDrift ==
    \A u \in Units :
        (unit[u].task # 0 /\ tasks[unit[u].task].kind = "Every" /\ unit[u].next.ok)
            => unit[u].next.value = unit[u].due + tasks[unit[u].task].duration

\* C7: at most one execution of an After task is in flight.
AfterNoOverlap ==
    \A i \in 1..Len(tasks) :
        tasks[i].kind = "After" =>
            Cardinality({u \in Units : unit[u].task = i /\ InFlight(u)}) <= 1

\* An execution of an After task is in flight while the thread of its
\* previous execution, which has pushed the entry, has yet to end.
AfterNoOverlapWitness ==
    \E u, v \in Units :
        /\ u # v
        /\ unit[u].task = unit[v].task
        /\ unit[u].task # 0
        /\ tasks[unit[u].task].kind = "After"
        /\ InFlight(u)
        /\ pc[v] \in {"notify", "end"}

\* C8: the times of the entries dispatched never decrease.
DispatchOrder == [][lastDue' >= lastDue]_vars

\* C8, amended: the times of the entries dispatched never decrease as long
\* as no thread has pushed an entry with a time earlier than that of an entry
\* dispatched before the push.
DispatchOrderUnlessStale == [][~stalePush' => lastDue' >= lastDue]_vars

\* Entries pushed by execution units have been dispatched, none of them stale.
DispatchOrderWitness ==
    /\ ~stalePush
    /\ lastDue >= StartClock + 2
    /\ \E u \in Units : unit[u].task # 0 /\ unit[u].due = lastDue /\ InFlight(u)
    /\ \E u \in Units : unit[u].task # 0 /\ unit[u].due < lastDue
    /\ ~HeapIsEmpty(heap)

\* C9: once next_run has failed while the tasks are started, main has
\* returned, the dispatch loop was not entered and no task was ever run.
StartupFailure ==
    seedFailed =>
        /\ pc[Main] = "exit"
        /\ ~everRan
        /\ \A u \in Units : pc[u] = "idle" /\ unit[u] = NoUnit

\* Startup has failed after a task with the startup flag was pushed.
StartupFailureWitness ==
    /\ seedFailed
    /\ pc[Main] = "exit"
    /\ \E e \in BagToSet(heap) : tasks[e.task].on_startup

\* C10: an instant find_next_datetime returns is not before now, its hour,
\* minute and second are in the rule's sets, and its weekday, day and month
\* are each in the rule's set unless that set is empty.
OnResultSound ==
    (fpc = "done" /\ fres.ok) =>
        /\ fres.value >= fnow
        /\ HourOf(fres.value) \in Range(frule.hour)
        /\ MinuteOf(fres.value) \in Range(frule.minute)
        /\ SecondOf(fres.value) \in Range(frule.second)
        /\ (WeekdayOf(DateOf(fres.value)) \in Range(frule.weekday) \/ frule.weekday = <<>>)
        /\ (DayOf(DateOf(fres.value)) \in Range(frule.day) \/ frule.day = <<>>)
        /\ (MonthOf(DateOf(fres.value)) \in Range(frule.month) \/ frule.month = <<>>)

\* A result on a later date, under a rule that constrains weekday, day and month.
OnResultSoundWitness ==
    /\ fpc = "done"
    /\ fres.ok
    /\ frule.weekday # <<>> /\ frule.day # <<>> /\ frule.month # <<>>
    /\ DateOf(fres.value) > DateOf(fnow) + 1
    /\ TimeOf(fres.value) < TimeOf(fnow)

\* C12: when the time wait_peek_time returned to the dispatch loop is not
\* later than the clock the loop reads, equal included, the loop goes on to
\* try_pop (and from there to Task::run and the next wait_peek_time), not to
\* the sleep.
DispatchWhenDue ==
    [][(pc[Main] = "loop_cmp" /\ pc'[Main] # "loop_cmp" /\ peeked[Main] <= clock)
           => (pc'[Main] = "pop" /\ ret'[Main] = "loop_run")]_vars

\* C13: a thread whose command.spawn() has failed does nothing more: it makes
\* no call of notify_push, so an After task is not queued again.
NoPushAfterSpawnFailure ==
    [][\A u \in Units : unit[u].failed => pc'[u] # "push"]_vars

\* C14: once next_run has failed in a spawned thread, the task has no entry
\* in the queue, no call of notify_push is made for it, no entry of it is
\* about to be run and no thread runs it but those in which next_run failed
\* (so it never runs again); and main has neither returned nor panicked.
RearmFailureDrops ==
    \A i \in dropped :
        /\ \A e \in BagToSet(heap) : e.task # i
        /\ \A t \in Threads : arg[t].task # i
        /\ ~(pc[Main] = "loop_run" /\ popped[Main].task = i)
        /\ \A u \in Units :
               unit[u].task = i =>
                   (pc[u] \in {"spawn", "child", "post", "end"} /\ ~unit[u].next.ok)
        /\ pc[Main] \notin {"exit", "panic"}

\* The thread in which next_run failed has ended, and an entry of another
\* task has been dispatched since, to a thread that took its place.
RearmFailureDropsWitness ==
    /\ dropped # {}
    /\ \A u \in Units : unit[u].task \notin dropped
    /\ unit[1].task # 0
    /\ pc[1] = "start"

SleepClamped ==
    pc[Main] = "sleeping" =>
        LET diff == (peeked[Main] - sleep.start) * 1000
        IN  /\ sleep.ms >= 1000 /\ sleep.ms <= 60000
            /\ diff < 2000 => sleep.ms = 1000
            /\ diff > 120000 => sleep.ms = 60000
            /\ (diff >= 2000 /\ diff <= 120000) => 2 * sleep.ms = diff
            /\ peeked[Main] < sleep.start => sleep.ms = 1000

\* The loop sleeps with an entry in the queue that was due before the clock
\* was read for the sleep.
SleepClampedWitness ==
    /\ pc[Main] = "sleeping"
    /\ peeked[Main] < sleep.start
    /\ sleep.ms = 1000

\* C17: the steps in which command.spawn() fails or child.wait() returns
\* leave the queue as it is, and an entry leaves the queue only by the
\* dispatch loop's try_pop, which returns it; so the entry an On or Every
\* thread pushed stays queued through a later failure until it is dispatched.
PushedEntrySurvives ==
    [][/\ \A u \in Units :
              (pc[u] \in {"spawn", "child"} /\ pc'[u] = "post") => heap' = heap
       /\ \A e \in BagToSet(heap) :
              CopiesIn(e, heap') < CopiesIn(e, heap) =>
                  (pc[Main] = "pop" /\ pc'[Main] = "loop_run" /\ popped'[Main] = e)]_vars

\* The spawn of an On or Every thread has failed; the entry it pushed is the
\* one try_pop is about to hand to the dispatch loop.
PushedEntrySurvivesWitness ==
    \E u \in Units :
        /\ unit[u].failed
        /\ tasks[unit[u].task].kind \in {"On", "Every"}
        /\ unit[u].next.ok
        /\ HeapTop(heap) = {QueuedTask(unit[u].next.value, unit[u].task)}
        /\ pc[Main] = "pop"
        /\ peeked[Main] = unit[u].next.value

\* The positions of the rule's (hour, minute, second) triples.
TripleIndexes(rule) ==
    (1..Len(rule.hour)) \X (1..Len(rule.minute)) \X (1..Len(rule.second))

\* The lexicographic order of the positions: hour outermost, then minute,
\* then second.
LexLess(a, b) ==
    \/ a[1] < b[1]
    \/ a[1] = b[1] /\ a[2] < b[2]
    \/ a[1] = b[1] /\ a[2] = b[2] /\ a[3] < b[3]

TripleTime(rule, a) == from_hms(rule.hour[a[1]], rule.minute[a[2]], rule.second[a[3]])

\* C18: the time of day of a result is that of the first triple, in
\* lexicographic order, later than now's time of day, and the date search
\* started today: the result's date is the first from today on to satisfy
\* the date constraints (today, when they are all empty); with no triple
\* later, the time of day is the first triple's and the date search started
\* tomorrow. So hour = {3, 9} at 05:00:00 gives 09:00:00 today, and
\* hour = {3} at 05:00:00 gives 03:00:00 tomorrow.
TimeOfDayPhase ==
    (fpc = "done" /\ fres.ok) =>
        LET nowt  == TimeOf(fnow)
            later == {a \in TripleIndexes(frule) : TripleTime(frule, a) > nowt}
            start == IF later # {} THEN DateOf(fnow) ELSE DateOf(fnow) + 1
        IN  /\ IF later # {}
               THEN \E a \in later :
                        /\ \A b \in later : a = b \/ LexLess(a, b)
                        /\ TimeOf(fres.value) = TripleTime(frule, a)
               ELSE TimeOf(fres.value) = TripleTime(frule, <<1, 1, 1>>)
            /\ DateOf(fres.value) >= start
            /\ DateQualifies(frule, DateOf(fres.value))
            /\ \A d \in start..(DateOf(fres.value) - 1) : ~DateQualifies(frule, d)
            /\ (frule.weekday = <<>> /\ frule.day = <<>> /\ frule.month = <<>>)
                   => DateOf(fres.value) = start
            /\ (frule = Rule(<<0>>, <<0>>, <<3, 9>>, <<>>, <<>>, <<>>) /\ nowt = from_hms(5, 0, 0))
                   => fres.value = NaiveDateTime_new(DateOf(fnow), from_hms(9, 0, 0))
            /\ (frule = Rule(<<0>>, <<0>>, <<3>>, <<>>, <<>>, <<>>) /\ nowt = from_hms(5, 0, 0))
                   => fres.value = NaiveDateTime_new(DateOf(fnow) + 1, from_hms(3, 0, 0))

\* hour = {3} at 05:00:00: the result is 03:00:00 of the next day.
TimeOfDayPhaseWitness ==
    /\ fpc = "done"
    /\ fres.ok
    /\ frule = Rule(<<0>>, <<0>>, <<3>>, <<>>, <<>>, <<>>)
    /\ TimeOf(fnow) = from_hms(5, 0, 0)
    /\ fres.value = NaiveDateTime_new(DateOf(fnow) + 1, from_hms(3, 0, 0))

\* The dispatch loop is in thread::sleep and the clock has not reached the
\* end of the sleep.
AwaitsClock == pc[Main] = "sleeping" /\ clock * 1000 < sleep.start * 1000 + sleep.ms

\* Task::run has just started a thread for the entry.
Dispatched(e) ==
    \E u \in Units : pc[u] = "start" /\ unit[u].task = e.task /\ unit[u].due = e.time

\* C19: while the child of a thread runs, for as long as it may, an entry of
\* either task whose time the clock has passed gets popped and a thread is
\* started for it, the dispatch loop waiting at most for the clock to end a
\* sleep: it never waits for the child.
ChildNeverBlocks ==
    \A e \in [time : StartClock..(StartClock + MaxClock), task : 1..2] :
        (pc[1] = "child" /\ e \in BagToSet(heap) /\ e.time < clock)
            ~> (Dispatched(e) \/ AwaitsClock)

\* The child of thread 1 runs, an entry of the other task is due, and the
\* dispatch loop is about to pop it.
ChildNeverBlocksWitness ==
    /\ pc[1] = "child"
    /\ pc[Main] = "pop"
    /\ \E e \in HeapTop(heap) : e.task # unit[1].task /\ e.time < clock

\* C20: nothing keeps an entry from being run while an earlier execution of
\* its task is in flight: with an entry popped and a thread to be had,
\* Task::run starts one, whatever the other threads are running.
SelfOverlapNotPrevented ==
    (pc[Main] = "loop_run" /\ popped[Main] # NoEntry /\ \E u \in Units : pc[u] = "idle")
        => ENABLED LoopRun

\* Two executions of an Every task are in flight: the child of the first has
\* not exited, and the second was started from the entry the first pushed.
SelfOverlapWitness ==
    \E u, v \in Units :
        /\ u # v
        /\ unit[u].task # 0
        /\ unit[u].task = unit[v].task
        /\ tasks[unit[u].task].kind = "Every"
        /\ pc[u] = "child"
        /\ InFlight(v)
        /\ unit[u].next.ok
        /\ unit[v].due = unit[u].next.value

\* The number of entries of task i in the queue.
Pending(i) ==
    BagCardinality([e \in {f \in BagToSet(heap) : f.task = i} |-> CopiesIn(e, heap)])

\* The entries of task i yet to come: the task is still to be started by
\* main, an entry of it was popped and is to be run, or a thread of it has
\* its call of next_run or its push ahead.
Upcoming(i) ==
    (IF seedIdx <= i /\ pc[Main] = "seed" THEN 1 ELSE 0)
    + (IF pc[Main] = "loop_run" /\ popped[Main].task = i THEN 1 ELSE 0)
    + Cardinality({t \in Threads : pc[t] = "push" /\ arg[t].task = i})
    + Cardinality({u \in Units :
                      /\ unit[u].task = i
                      /\ \/ pc[u] = "start" /\ RearmsBefore(tasks[i])
                         \/ pc[u] \in {"start", "spawn", "child", "post"}
                               /\ RearmsAfter(tasks[i])})

\* C21: a task never has more than one entry in the queue; what is more, an
\* entry in the queue and the entries yet to come are one at most.
OnePendingEntry ==
    \A i \in 1..Len(tasks) : Pending(i) <= 1 /\ Pending(i) + Upcoming(i) <= 1

\* Each of two tasks has its entry in the queue, the one of the Every task
\* pushed by the thread whose child now runs.
OnePendingEntryWitness ==
    /\ Len(tasks) = 2
    /\ \A i \in 1..2 : Pending(i) = 1
    /\ \E u \in Units :
           /\ pc[u] = "child"
           /\ unit[u].task # 0
           /\ tasks[unit[u].task].kind = "Every"
           /\ QueuedTask(unit[u].next.value, unit[u].task) \in BagToSet(heap)

\* C22: the unwrap of try_pop in main's loop never meets an empty queue: from
\* the return of wait_peek_time in the loop's condition to the try_pop the
\* queue holds an entry, whatever the spawned threads push meanwhile, and
\* what try_pop hands to Task::run is an entry.
PopNeverEmpty ==
    /\ pc[Main] # "panic"
    /\ pc[Main] \in {"loop_cmp", "pop"} => ~HeapIsEmpty(heap)
    /\ pc[Main] = "loop_run" => popped[Main] # NoEntry

\* Main is about to pop and a spawned thread has pushed, since the peek, an
\* entry that is due before the one main saw.
PopNeverEmptyWitness ==
    /\ pc[Main] = "pop"
    /\ ~HeapIsEmpty(heap)
    /\ MinTime(heap) < peeked[Main]
    /\ \E u \in Units : pc[u] \in {"spawn", "child", "end"}

\* C23: no entry is dispatched early. When the loop's condition sends main to
\* try_pop, the time it peeked is before the clock it read; the entry try_pop
\* then returns is due no later than the peeked time, so before that reading
\* of the clock, and before the clock at the pop.
NoEarlyDispatch ==
    [][/\ (pc[Main] = "loop_cmp" /\ pc'[Main] = "pop") => peeked[Main] < clock
       /\ (pc[Main] = "pop" /\ pc'[Main] = "loop_run")
             => /\ popped'[Main] # NoEntry
                /\ popped'[Main].time <= peeked[Main]
                /\ popped'[Main].time < clock]_vars

\* The entry main popped is not the one it peeked: a thread pushed an earlier
\* one between the peek and the pop.
NoEarlyDispatchWitness ==
    /\ pc[Main] = "loop_run"
    /\ popped[Main] # NoEntry
    /\ popped[Main].time < peeked[Main]
    /\ peeked[Main] < clock

\* The threads of the given kind of task that have computed their next time.
Rearmed(kind) ==
    {u \in Units : /\ unit[u].task # 0
                   /\ tasks[unit[u].task].kind = kind
                   /\ unit[u].next.ok}

\* C24: the time a thread computes for the next entry of its task is strictly
\* later than the time of the entry whose dispatch started the thread, for
\* On, Every and After; so the entry it pushes is due strictly later, and an
\* entry of the task in the queue is due later than that of each of the
\* task's threads that has pushed.
RearmLater ==
    /\ \A u \in Units :
           (unit[u].task # 0 /\ unit[u].next.ok) => unit[u].next.value > unit[u].due
    /\ \A t \in Threads \ {Main} :
           pc[t] = "push" => arg[t].time > unit[t].due
    /\ \A u \in Units : \A e \in BagToSet(heap) :
           (/\ unit[u].task = e.task
            /\ \/ pc[u] \in {"spawn", "child"} /\ RearmsBefore(tasks[e.task])
               \/ pc[u] = "end")
             => e.time > unit[u].due

\* A thread of an On task has computed the next occurrence and pushed its
\* entry, which is in the queue while the thread's child runs.
RearmLaterWitness ==
    \E u \in Rearmed("On") :
        /\ pc[u] = "child"
        /\ QueuedTask(unit[u].next.value, unit[u].task) \in BagToSet(heap)
        /\ unit[u].next.value > unit[u].due

====
